---- MODULE Spec2Model ----
(***************************************************************************)
(* snapsort: the classification and planning pipeline of run()             *)
(* (src/src/snapsort/runner.py) with the executor of mover.py.             *)
(*                                                                         *)
(* Modelling conventions                                                   *)
(*   - Python None is NoneVal (-1) for phash and blur_variance (both are   *)
(*     non-negative when present), NoneFaces for faces_variances and the   *)
(*     string "None" for error.  str(e) may be the empty string.           *)
(*   - a perceptual hash is a HashBits-wide bit pattern kept as a number;  *)
(*     `a - b` on hashes is the Hamming distance.                          *)
(*   - variances, thresholds and percentages are reals in the program;     *)
(*     only comparisons and one ratio are taken, done here exactly over    *)
(*     integers.                                                           *)
(*   - a file name is a sequence of string tokens whose last token is the  *)
(*     suffix (".jpg"); f"{base}_{i}{ext}" appends the tokens "_" and      *)
(*     str(i) to the stem.                                                 *)
(***************************************************************************)
EXTENDS Integers, Sequences, FiniteSets, TLC

\* ------------------------------------------------------------------ bounds
MaxImages == 3
HashBits == 3
MaxFaces == 4
MaxThreshold == 2

\* ------------------------------------------------------------ environment
NoneVal == -1
NoneFaces == <<NoneVal>>

Range(s) == {s[i] : i \in DOMAIN s}

Hashes == 0 .. (2 ^ HashBits - 1)

\* Variance of Laplacian values around the blur threshold: below, equal, above.
Variances == {10, 50, 200}
BlurThresholds == {50}
PartialPercents == {0, 50, 100}

SeqsUpTo(S, n) == UNION {[1 .. k -> S] : k \in 0 .. n}

\* config.py defaults of the four folder names
blur_folder_name == "blurred"
partial_blur_folder_name == "partialBlurred"
slight_blur_folder_name == "slightlyBlurred"
duplicate_folder_name == "duplicate"

DestDirs == {blur_folder_name, partial_blur_folder_name, slight_blur_folder_name, duplicate_folder_name}

\* ---------------------------------------------------------------- analyzer
\* What analysis of the file at a path does: "ok" computes the features,
\* "error" and "empty_error" are exceptions caught inside analyze_image
\* (the latter with an empty message), "fault" is an exception that reaches
\* the orchestration loop.
FeatKinds == {"ok", "error", "empty_error", "fault"}

AnalysisResult(path, phash, blur_variance, faces_variances, error) ==
    [path |-> path, phash |-> phash, blur_variance |-> blur_variance,
     faces_variances |-> faces_variances, error |-> error]

\* analyze_image(path, do_face_analysis) on a file with features f; a fault
\* is reported by the field raised (the exception's message).
analyze_image(path, f, do_face_analysis) ==
    CASE f.kind = "ok" ->
            [raised |-> "None",
             value |-> AnalysisResult(path, f.phash, f.variance,
                          IF do_face_analysis THEN f.faces ELSE NoneFaces, "None")]
      [] f.kind = "error" ->
            [raised |-> "None",
             value |-> AnalysisResult(path, NoneVal, NoneVal, NoneFaces, "cannot identify image file")]
      [] f.kind = "empty_error" ->
            [raised |-> "None",
             value |-> AnalysisResult(path, NoneVal, NoneVal, NoneFaces, "")]
      [] OTHER ->
            [raised |-> "worker fault",
             value |-> AnalysisResult(path, NoneVal, NoneVal, NoneFaces, "None")]

\* Python truthiness of an Optional[str]
Truthy(s) == s # "None" /\ s # ""

\* ------------------------------------------------------------------ hashes
Bit(h, k) == (h \div (2 ^ k)) % 2

\* ImageHash.__sub__: number of differing bits
Hamming(a, b) == Cardinality({k \in 0 .. (HashBits - 1) : Bit(a, k) # Bit(b, k)})

\* --------------------------------------------------------- _group_duplicates
\* Sequence positions are 1-based here (enumerate() is 0-based in the code).
DupGroup(rep_hash, canonical_index, canonical_path, members) ==
    [rep_hash |-> rep_hash, canonical_index |-> canonical_index,
     canonical_path |-> canonical_path, members |-> members]

CloserOrEqual(min_dist, dist) == min_dist = NoneVal \/ dist <= min_dist

\* line 42: does this group replace the nearest one found so far
Closer(min_dist, dist) == min_dist = NoneVal \/ dist < min_dist

RECURSIVE NearestFrom(_, _, _, _)
NearestFrom(gs, phash, gi, acc) ==
    IF gi > Len(gs) THEN acc
    ELSE LET dist == Hamming(gs[gi].rep_hash, phash)
         IN  NearestFrom(gs, phash, gi + 1,
                 IF Closer(acc.min_dist, dist)
                 THEN [min_dist |-> dist, min_gi |-> gi]
                 ELSE acc)

\* lines 38-44: nearest representative
Nearest(gs, phash) == NearestFrom(gs, phash, 1, [min_dist |-> NoneVal, min_gi |-> NoneVal])

StartsNewGroupAtThreshold(min_dist, threshold) == min_dist = NoneVal \/ min_dist >= threshold

\* line 45
StartsNewGroup(min_dist, threshold) == min_dist = NoneVal \/ min_dist > threshold

MarkedPathCanonical(g, res) == g.canonical_path

\* line 52: the key set to True in duplicate_map
MarkedPath(g, res) == res.path

GroupIterationNoSkip(st, idx, res, threshold) ==
    LET n == Nearest(st.groups, res.phash)
    IN  IF StartsNewGroup(n.min_dist, threshold)
        THEN [groups |-> Append(st.groups, DupGroup(res.phash, idx, res.path, <<idx>>)),
              duplicate_map |-> st.duplicate_map]
        ELSE LET g == st.groups[n.min_gi]
             IN  [groups |-> [st.groups EXCEPT ![n.min_gi].members = Append(@, idx)],
                  duplicate_map |-> st.duplicate_map \cup {MarkedPath(g, res)}]

\* One iteration of the loop of lines 34-52 on the pair (groups, duplicate_map).
\* duplicate_map only ever maps a path to True, and is only read with
\* .get(path, False): it is kept as the set of its keys.
GroupIteration(st, idx, res, threshold) ==
    IF res.phash = NoneVal THEN st
    ELSE LET n == Nearest(st.groups, res.phash)
         IN  IF StartsNewGroup(n.min_dist, threshold)
             THEN [groups |-> Append(st.groups, DupGroup(res.phash, idx, res.path, <<idx>>)),
                   duplicate_map |-> st.duplicate_map]
             ELSE LET g == st.groups[n.min_gi]
                  IN  [groups |-> [st.groups EXCEPT ![n.min_gi].members = Append(@, idx)],
                       duplicate_map |-> st.duplicate_map \cup {MarkedPath(g, res)}]

RECURSIVE GroupFrom(_, _, _, _)
GroupFrom(rs, threshold, idx, st) ==
    IF idx > Len(rs) THEN st
    ELSE GroupFrom(rs, threshold, idx + 1, GroupIteration(st, idx, rs[idx], threshold))

\* the whole function
group_duplicates(rs, threshold) ==
    GroupFrom(rs, threshold, 1, [groups |-> <<>>, duplicate_map |-> {}])

\* ------------------------------------------------------ blur classification
IsBlurInclusive(blur_variance, blur_threshold) ==
    blur_variance # NoneVal /\ blur_variance <= blur_threshold

\* lines 177 and 195
IsBlur(blur_variance, blur_threshold) ==
    blur_variance # NoneVal /\ blur_variance < blur_threshold

\* line 184
BlurredFaces(face_vars, blur_threshold) ==
    Cardinality({i \in DOMAIN face_vars : face_vars[i] < blur_threshold})

\* lines 188-189, percent = (blurred_faces / face_count) * 100.0 compared with
\* partial_blur_min_percent, computed exactly
PercentReaches(blurred_faces, face_count, partial_blur_min_percent) ==
    blurred_faces * 100 >= partial_blur_min_percent * face_count

FaceReasonStrict(face_vars, blur_threshold, partial_blur_min_percent) ==
    LET face_count == Len(face_vars)
        blurred_faces == BlurredFaces(face_vars, blur_threshold)
    IN  IF blurred_faces = face_count THEN "blurred"
        ELSE IF blurred_faces * 100 > partial_blur_min_percent * face_count
             THEN "partialBlurred"
        ELSE IF blurred_faces > 0 THEN "slightlyBlurred"
        ELSE "None"

\* lines 184-192, face_count > 0
FaceReason(face_vars, blur_threshold, partial_blur_min_percent) ==
    LET face_count == Len(face_vars)
        blurred_faces == BlurredFaces(face_vars, blur_threshold)
    IN  IF blurred_faces = face_count THEN "blurred"
        ELSE IF PercentReaches(blurred_faces, face_count, partial_blur_min_percent)
             THEN "partialBlurred"
        ELSE IF blurred_faces > 0 THEN "slightlyBlurred"
        ELSE "None"

\* line 181: r.faces_variances or []
FaceVars(r) == IF r.faces_variances = NoneFaces THEN <<>> ELSE r.faces_variances

\* lines 175-202: blur_reason of one record ("None" for None)
BlurReason(r, cfg) ==
    IF cfg.blur_on = "image"
    THEN IF IsBlur(r.blur_variance, cfg.blur_threshold) THEN "blurred" ELSE "None"
    ELSE IF Len(FaceVars(r)) > 0
         THEN FaceReason(FaceVars(r), cfg.blur_threshold, cfg.partial_blur_min_percent)
         ELSE IF IsBlur(r.blur_variance, cfg.blur_threshold) THEN "blurred" ELSE "None"

\* ------------------------------------------------------------- resolution
CombineBlurFirst(is_dup, blur_reason, prefer_duplicate_over_blur) ==
    IF blur_reason # "None" THEN blur_reason
    ELSE IF is_dup THEN "duplicate"
    ELSE "None"

\* lines 204-210: reason ("None" for None)
Combine(is_dup, blur_reason, prefer_duplicate_over_blur) ==
    IF is_dup /\ blur_reason # "None"
    THEN IF prefer_duplicate_over_blur THEN "duplicate" ELSE blur_reason
    ELSE IF is_dup THEN "duplicate"
    ELSE IF blur_reason # "None" THEN blur_reason
    ELSE "None"

\* lines 213-220
DestDir(reason) ==
    IF reason = "duplicate" THEN duplicate_folder_name
    ELSE IF reason = "blurred" THEN blur_folder_name
    ELSE IF reason = "partialBlurred" THEN partial_blur_folder_name
    ELSE slight_blur_folder_name

MovePlan(src, dest, reason) == [src |-> src, dest |-> dest, reason |-> reason]

PlansForBoth(r, is_dup, cfg) ==
    LET blur_reason == BlurReason(r, cfg)
    IN  (IF is_dup
         THEN <<MovePlan(r.path, [dir |-> DestDir("duplicate"), name |-> r.path.name], "duplicate")>>
         ELSE <<>>)
        \o
        (IF blur_reason # "None"
         THEN <<MovePlan(r.path, [dir |-> DestDir(blur_reason), name |-> r.path.name], blur_reason)>>
         ELSE <<>>)

\* lines 169-222: what one iteration of the planning loop appends to plans
PlansFor(r, is_dup, cfg) ==
    IF Truthy(r.error) THEN <<>>
    ELSE LET reason == Combine(is_dup, BlurReason(r, cfg), cfg.prefer_duplicate_over_blur)
         IN  IF reason = "None" THEN <<>>
             ELSE <<MovePlan(r.path, [dir |-> DestDir(reason), name |-> r.path.name], reason)>>

\* ------------------------------------------------------------------- mover
\* Path(filename).stem and .suffix
Stem(filename) == SubSeq(filename, 1, Len(filename) - 1)
Suffix(filename) == filename[Len(filename)]

\* str(i) for the numbers the probe reaches
IntStr == <<"1", "2", "3", "4", "5", "6", "7", "8", "9">>
ToStr(i) == IF i = 0 THEN "0" ELSE IntStr[i]

\* f"{base}_{i}{ext}"
Numbered(base, i, ext) == base \o <<"_", ToStr(i)>> \o <<ext>>

RECURSIVE ProbeFrom(_, _, _, _, _)
ProbeFrom(dest_dir, base, ext, i, exists) ==
    LET candidate == [dir |-> dest_dir, name |-> Numbered(base, i, ext)]
    IN  IF candidate \in exists
        THEN ProbeFrom(dest_dir, base, ext, i + 1, exists)
        ELSE candidate

\* lines 19-27, exists = the paths for which Path.exists() is true
unique_destination(dest_dir, filename, exists) ==
    LET base == Stem(filename)
        ext == Suffix(filename)
        candidate == [dir |-> dest_dir, name |-> base \o <<ext>>]
    IN  IF candidate \in exists THEN ProbeFrom(dest_dir, base, ext, 1, exists) ELSE candidate

FinalDestAsPlanned(plan, exists) == plan.dest

\* lines 32-33: the destination move_or_copy writes to
FinalDest(plan, exists) ==
    IF plan.dest \in exists
    THEN unique_destination(plan.dest.dir, plan.dest.name, exists)
    ELSE plan.dest

\* ------------------------------------------------------------------- state
VARIABLES
    config,                 \* the Config of the run
    writable,               \* os.access on the output and the input directory
    files,                  \* input directory: path -> what analysis of it does
    pc,                     \* position of run()
    status,                 \* exit status, NoneVal while running
    paths,                  \* discover_images(), in discovery order
    pending,                \* submitted futures not yet yielded by as_completed
    results_by_path,        \* dict in insertion order: sequence of <<path, result>>
    results,
    error_count,
    idx,                    \* position of the loop of _group_duplicates
    groups,
    duplicate_map,
    duplicate_groups,
    plans,
    ri,                     \* position of the planning loop over results
    dirs,                   \* destination directories that exist
    fs,                     \* files in the destination directories: path -> content
    srcs,                   \* input files still in place
    pk,                     \* position of the execution loop over plans
    blurred_count,
    partial_blurred_count,
    slightly_blurred_count,
    duplicates_count

vars == <<config, writable, files, pc, status, paths, pending, results_by_path,
          results, error_count, idx, groups, duplicate_map, duplicate_groups,
          plans, ri, dirs, fs, srcs, pk, blurred_count, partial_blurred_count,
          slightly_blurred_count, duplicates_count>>

inputVars == <<config, writable, files>>
analysisVars == <<paths, pending, results_by_path, results, error_count>>
groupVars == <<idx, groups, duplicate_map, duplicate_groups>>
planVars == <<plans, ri>>
diskVars == <<dirs, fs, srcs>>
countVars == <<blurred_count, partial_blurred_count, slightly_blurred_count, duplicates_count>>

\* --------------------------------------------------------------- input sets
\* Sub-directories of the input directory, in the order of
\* str(path).lower(); each holds at most one image.
SrcDirNames == <<"in1", "in2", "in3", "in4", "in5">>

DirIndex(d) == CHOOSE i \in DOMAIN SrcDirNames : SrcDirNames[i] = d

ImgJpg == <<"img", ".jpg">>
Img1Jpg == <<"img", "_", "1", ".jpg">>
PicJpeg == <<"pic", ".jpeg">>

OkFeats(H, V, F) == [kind : {"ok"}, phash : H, variance : V, faces : F]

ErrFeats(K) == [kind : K, phash : {NoneVal}, variance : {NoneVal}, faces : {<<>>}]

Configs(T, B, P, M, D, Pref, Keep) ==
    [duplicate_threshold : T, blur_threshold : B, partial_blur_min_percent : P,
     blur_on : M, prefer_duplicate_over_blur : Pref, dry_run : D, keep_originals : Keep]

\* state after construction of the Config, before run() is entered
\* Runs: pairs of a Config and the writability found by os.access; First: the
\* features the image of the first sub-directory may have.
InitWith(Ns, Names, Feats, First, Runs, Olds) ==
    /\ \E run \in Runs :
          /\ config = run[1]
          /\ writable = run[2]
    /\ \E n \in Ns : \E names \in [1 .. n -> Names] : \E fts \in [1 .. n -> Feats] :
          /\ n >= 1 => fts[1] \in First
          /\ files = [p \in {[dir |-> SrcDirNames[i], name |-> names[i]] : i \in 1 .. n}
                       |-> fts[DirIndex(p.dir)]]
    /\ \E old \in Olds :
          \* 0 is the content of a file left by an earlier run
          /\ fs = [q \in old |-> 0]
          /\ dirs = {q.dir : q \in old}
    /\ srcs = DOMAIN files
    /\ pc = "preflight"
    /\ status = NoneVal
    /\ paths = <<>>
    /\ pending = {}
    /\ results_by_path = <<>>
    /\ results = <<>>
    /\ error_count = 0
    /\ idx = 1
    /\ groups = <<>>
    /\ duplicate_map = {}
    /\ duplicate_groups = 0
    /\ plans = <<>>
    /\ ri = 1
    /\ pk = 1
    /\ blurred_count = 0
    /\ partial_blurred_count = 0
    /\ slightly_blurred_count = 0
    /\ duplicates_count = 0

\* ----------------------------------------------------------------- actions
\* runner.py 92-110: the preflight permission checks
PreflightFails ==
    /\ ~config.dry_run
    /\ \/ ~writable.output
       \/ ~config.keep_originals /\ ~writable.input

PreflightAbort ==
    /\ pc = "preflight"
    /\ PreflightFails
    /\ status' = 2
    /\ pc' = "done"
    /\ UNCHANGED <<inputVars, analysisVars, groupVars, planVars, diskVars, pk, countVars>>

PreflightPass ==
    /\ pc = "preflight"
    /\ ~PreflightFails
    /\ pc' = "discover"
    /\ UNCHANGED <<inputVars, status, analysisVars, groupVars, planVars, diskVars, pk, countVars>>

\* scanner.py 54: results.sort(key=lambda p: str(p).lower())
SortKey(p) == DirIndex(p.dir)

\* scanner.py 17-55: the images under the input directory, sorted
discover_images(fls) ==
    CHOOSE s \in [1 .. Cardinality(DOMAIN fls) -> DOMAIN fls] :
        \A i, j \in DOMAIN s : i < j => SortKey(s[i]) < SortKey(s[j])

\* runner.py 112-116: no image found
DiscoverNone ==
    /\ pc = "discover"
    /\ Len(discover_images(files)) = 0
    /\ paths' = discover_images(files)
    /\ status' = 0
    /\ pc' = "done"
    /\ UNCHANGED <<inputVars, pending, results_by_path, results, error_count,
                   groupVars, planVars, diskVars, pk, countVars>>

\* runner.py 112-123: every path is submitted to the pool
DiscoverSubmit ==
    /\ pc = "discover"
    /\ Len(discover_images(files)) > 0
    /\ paths' = discover_images(files)
    /\ pending' = Range(paths')
    /\ pc' = "analyze"
    /\ UNCHANGED <<inputVars, status, results_by_path, results, error_count,
                   groupVars, planVars, diskVars, pk, countVars>>

\* runner.py 126-129: the result of a future, or the error record built from
\* the exception it raised
FutureResult(p) ==
    LET a == analyze_image(p, files[p], config.blur_on = "faces")
    IN  IF a.raised = "None" THEN a.value
        ELSE AnalysisResult(p, NoneVal, NoneVal, NoneFaces, a.raised)

\* runner.py 124-130: as_completed yields some finished future
Complete(p) ==
    /\ pc = "analyze"
    /\ p \in pending
    /\ pending' = pending \ {p}
    /\ results_by_path' = Append(results_by_path, <<p, FutureResult(p)>>)
    /\ UNCHANGED <<inputVars, pc, status, paths, results, error_count,
                   groupVars, planVars, diskVars, pk, countVars>>

Get(d, key) == d[CHOOSE k \in DOMAIN d : d[k][1] = key][2]

CompletionOrder(ps, d) == [k \in DOMAIN d |-> d[k][2]]

\* runner.py 133: [results_by_path[p] for p in paths]
Relinearize(ps, d) == [i \in DOMAIN ps |-> Get(d, ps[i])]

\* runner.py 135
ErrorCount(rs) == Cardinality({i \in DOMAIN rs : Truthy(rs[i].error)})

\* runner.py 132-133: every future has been yielded
Merge ==
    /\ pc = "analyze"
    /\ pending = {}
    /\ results' = Relinearize(paths, results_by_path)
    /\ pc' = "merged"
    /\ UNCHANGED <<inputVars, status, paths, pending, results_by_path, error_count,
                   groupVars, planVars, diskVars, pk, countVars>>

\* runner.py 135-137.  results_by_path is not read after line 133: the model
\* forgets it from here on.
CountErrors ==
    /\ pc = "merged"
    /\ error_count' = ErrorCount(results)
    /\ results_by_path' = <<>>
    /\ pc' = "group"
    /\ UNCHANGED <<inputVars, status, paths, pending, results, groupVars, planVars,
                   diskVars, pk, countVars>>

\* runner.py 34-52: one iteration of the loop of _group_duplicates
GroupStep ==
    /\ pc = "group"
    /\ idx <= Len(results)
    /\ LET st == GroupIteration([groups |-> groups, duplicate_map |-> duplicate_map],
                                idx, results[idx], config.duplicate_threshold)
       IN  /\ groups' = st.groups
           /\ duplicate_map' = st.duplicate_map
    /\ idx' = idx + 1
    /\ UNCHANGED <<inputVars, pc, status, analysisVars, duplicate_groups, planVars,
                   diskVars, pk, countVars>>

\* runner.py 54, 158-166
GroupDone ==
    /\ pc = "group"
    /\ idx > Len(results)
    /\ duplicate_groups' = Cardinality({g \in DOMAIN groups : Len(groups[g].members) > 1})
    /\ pc' = "plan"
    /\ UNCHANGED <<inputVars, status, analysisVars, idx, groups, duplicate_map,
                   planVars, diskVars, pk, countVars>>

Prepended(ps, new) == new \o ps

\* runner.py 222: plans.append
Extended(ps, new) == ps \o new

\* runner.py 168-222: one iteration of the planning loop
PlanStep ==
    /\ pc = "plan"
    /\ ri <= Len(results)
    /\ plans' = Extended(plans, PlansFor(results[ri], results[ri].path \in duplicate_map, config))
    /\ ri' = ri + 1
    /\ UNCHANGED <<inputVars, pc, status, analysisVars, groupVars, diskVars, pk, countVars>>

EnsuredDirsAlways(ds, dry_run) == ds \cup DestDirs

\* runner.py 247-252: the directories that exist after the four ensure_dir
EnsuredDirs(ds, dry_run) == IF dry_run THEN ds ELSE ds \cup DestDirs

\* runner.py 246-252: the target folders are created up front
EnsureDirs ==
    /\ pc = "plan"
    /\ ri > Len(results)
    /\ dirs' = EnsuredDirs(dirs, config.dry_run)
    /\ pc' = "exec"
    /\ UNCHANGED <<inputVars, status, analysisVars, groupVars, planVars, fs, srcs,
                   pk, countVars>>

\* runner.py 272-273
ExecDryRun ==
    /\ pc = "exec"
    /\ pk <= Len(plans)
    /\ config.dry_run
    /\ pk' = pk + 1
    /\ UNCHANGED <<inputVars, pc, status, analysisVars, groupVars, planVars,
                   diskVars, countVars>>

\* content of an input file
Content(p) == DirIndex(p.dir)

\* runner.py 276-285 with mover.py 30-37: the move or copy succeeds
ExecMove ==
    /\ pc = "exec"
    /\ pk <= Len(plans)
    /\ ~config.dry_run
    /\ LET plan == plans[pk]
           dest == FinalDest(plan, DOMAIN fs)
       IN  /\ plan.src \in srcs
           /\ dirs' = dirs \cup {plan.dest.dir}
           /\ fs' = (dest :> Content(plan.src)) @@ fs
           /\ srcs' = IF config.keep_originals THEN srcs ELSE srcs \ {plan.src}
           /\ duplicates_count' = duplicates_count + (IF plan.reason = "duplicate" THEN 1 ELSE 0)
           /\ blurred_count' = blurred_count + (IF plan.reason = "blurred" THEN 1 ELSE 0)
           /\ partial_blurred_count' =
                  partial_blurred_count + (IF plan.reason = "partialBlurred" THEN 1 ELSE 0)
           /\ slightly_blurred_count' =
                  slightly_blurred_count + (IF plan.reason = "slightlyBlurred" THEN 1 ELSE 0)
    /\ pk' = pk + 1
    /\ UNCHANGED <<inputVars, pc, status, paths, pending, results_by_path, results,
                   error_count, groupVars, planVars>>

AbortAfterFailure(k, ps) == Len(ps) + 1

\* runner.py 271, 286-288: the loop goes on with the next plan after a failure
AfterFailure(k, ps) == k + 1

\* runner.py 286-288: move_or_copy raises (permission, disk full, missing
\* source); nothing is written
ExecFail ==
    /\ pc = "exec"
    /\ pk <= Len(plans)
    /\ ~config.dry_run
    /\ error_count' = error_count + 1
    /\ pk' = AfterFailure(pk, plans)
    /\ UNCHANGED <<inputVars, pc, status, paths, pending, results_by_path, results,
                   groupVars, planVars, diskVars, countVars>>

CountReason(ps, reason) == Cardinality({k \in DOMAIN ps : ps[k].reason = reason})

\* runner.py 290-309
Summary ==
    /\ pc = "exec"
    /\ pk > Len(plans)
    /\ blurred_count' = IF config.dry_run THEN CountReason(plans, "blurred") ELSE blurred_count
    /\ partial_blurred_count' =
           IF config.dry_run THEN CountReason(plans, "partialBlurred") ELSE partial_blurred_count
    /\ slightly_blurred_count' =
           IF config.dry_run THEN CountReason(plans, "slightlyBlurred") ELSE slightly_blurred_count
    /\ duplicates_count' =
           IF config.dry_run THEN CountReason(plans, "duplicate") ELSE duplicates_count
    /\ status' = 0
    /\ pc' = "done"
    /\ UNCHANGED <<inputVars, analysisVars, groupVars, planVars, diskVars, pk>>

Next ==
    \/ PreflightAbort
    \/ PreflightPass
    \/ DiscoverNone
    \/ DiscoverSubmit
    \/ \E p \in pending : Complete(p)
    \/ Merge
    \/ CountErrors
    \/ GroupStep
    \/ GroupDone
    \/ PlanStep
    \/ EnsureDirs
    \/ ExecDryRun
    \/ ExecMove
    \/ ExecFail
    \/ Summary

\* ---------------------------------------------------------- specifications
AllWritable == [output |-> TRUE, input |-> TRUE]
OutputReadOnly == [output |-> FALSE, input |-> TRUE]

\* The runs of the given configurations: everything writable, and, for the
\* configurations that are not dry runs, an output directory that is not.
Runs(Cfgs) ==
    {<<c, AllWritable>> : c \in Cfgs}
    \cup {<<c, OutputReadOnly>> : c \in {c \in Cfgs : ~c.dry_run}}

FarHash == 2 ^ HashBits - 1

\* A mix of duplicates, blur tiers and failed analyses.
MixedFeats ==
    {f \in OkFeats({0, FarHash}, {10, 200}, {<<>>, <<10, 200>>}) :
        f.faces # <<>> => f.variance = 200}
    \cup ErrFeats({"empty_error", "fault"})

MixedConfigs ==
    {c \in Configs({1}, BlurThresholds, {50, 100}, {"image", "faces"}, BOOLEAN, BOOLEAN, {FALSE}) :
        /\ c.blur_on = "image" => c.partial_blur_min_percent = 50
        /\ c.dry_run => (c.blur_on = "faces" /\ c.prefer_duplicate_over_blur
                           /\ c.partial_blur_min_percent = 50)}

Init == InitWith(0 .. MaxImages, {ImgJpg}, MixedFeats, MixedFeats, Runs(MixedConfigs), {{}})

Spec == Init /\ [][Next]_vars

ClusterFeats == OkFeats(Hashes, {200}, {<<>>}) \cup ErrFeats({"error"})

ClusterConfigs ==
    {c \in Configs(0 .. MaxThreshold, BlurThresholds, {50}, {"image"}, BOOLEAN, {TRUE}, {FALSE}) :
        c.dry_run => c.duplicate_threshold = 1}

\* Every hash and every threshold; blur plays no part.  Hamming distance is
\* invariant under flipping the same bits of every hash, so the first image
\* is given the hash 0 (or fails).
InitCluster ==
    InitWith(0 .. MaxImages, {ImgJpg}, ClusterFeats,
             {f \in ClusterFeats : f.phash \in {0, NoneVal}},
             Runs(ClusterConfigs), {{}})

SpecCluster == InitCluster /\ [][Next]_vars

BlurFeats ==
    OkFeats({0}, Variances, SeqsUpTo(Variances, MaxFaces)) \cup ErrFeats({"error"})

\* One image, every variance and every sequence of face variances.
InitBlur ==
    InitWith({0, 1}, {ImgJpg}, BlurFeats, BlurFeats,
             Runs(Configs({0}, BlurThresholds, PartialPercents, {"image", "faces"},
                          BOOLEAN, {TRUE}, {FALSE})),
             {{}})

SpecBlur == InitBlur /\ [][Next]_vars

Blurred(name) == [dir |-> blur_folder_name, name |-> name]

MoveFeats == OkFeats({0, FarHash}, {10}, {<<>>})

MoveConfigs ==
    {c \in Configs({0}, BlurThresholds, {50}, {"image"}, BOOLEAN, {TRUE}, BOOLEAN) :
        c.dry_run => ~c.keep_originals}

\* Blurred images and duplicates with colliding names, moved or copied into
\* destination directories that may hold files of an earlier run.
InitMove ==
    InitWith(0 .. MaxImages, {ImgJpg, Img1Jpg, PicJpeg}, MoveFeats, MoveFeats,
             Runs(MoveConfigs),
             {{}, {Blurred(ImgJpg)}, {Blurred(ImgJpg), Blurred(Img1Jpg)},
              {Blurred(ImgJpg), Blurred(<<"img", "_", "2", ".jpg">>)}})

SpecMove == InitMove /\ [][Next]_vars

TypeOK ==
    /\ pc \in {"preflight", "discover", "analyze", "merged", "group", "plan", "exec", "done"}
    /\ status \in {NoneVal, 0, 2}
    /\ pending \subseteq DOMAIN files
    /\ idx \in 1 .. (Len(results) + 1)
    /\ ri \in 1 .. (Len(results) + 1)
    /\ pk \in 1 .. (Len(plans) + 1)
    /\ dirs \subseteq DestDirs
    /\ srcs \subseteq DOMAIN files

\* ------------------------------------------------------------------ claims
Success(r) == r.error = "None"

Planned == 1 .. (ri - 1)

EntriesOf(path) == {k \in DOMAIN plans : plans[k].src = path}

\* the reason under which a path is planned, "None" when it is kept in place
PlanReason(path) ==
    IF EntriesOf(path) = {} THEN "None"
    ELSE plans[CHOOSE k \in EntriesOf(path) : TRUE].reason

Merged == pc \in {"merged", "group", "plan", "exec"} \/ (pc = "done" /\ results # <<>>)

ExpectedResults == [i \in DOMAIN paths |-> FutureResult(paths[i])]

RECURSIVE PlanFrom(_, _, _, _)
PlanFrom(rs, dm, cfg, i) ==
    IF i > Len(rs) THEN <<>>
    ELSE PlansFor(rs[i], rs[i].path \in dm, cfg) \o PlanFrom(rs, dm, cfg, i + 1)

\* C1: whatever the order in which the extraction tasks complete, the results
\* handed to clustering are the per-path outcomes in discovery order, and the
\* groups, the duplicate set and the plan sequence are those computed from the
\* discovery-ordered outcomes.
C1_DiscoveryOrder ==
    LET expected == group_duplicates(ExpectedResults, config.duplicate_threshold)
    IN  /\ Merged => results = ExpectedResults
        /\ (Merged /\ pc \notin {"merged", "group"}) =>
               /\ groups = expected.groups
               /\ duplicate_map = expected.duplicate_map
        /\ (Merged /\ pc \in {"exec", "done"}) =>
               plans = PlanFrom(ExpectedResults, expected.duplicate_map, config, 1)

\* the images completed in the reverse of the discovery order, with different
\* outcomes, and the results have been put back in discovery order
C1_Witness ==
    /\ pc = "merged"
    /\ Len(paths) >= 3
    /\ \A k \in DOMAIN paths : results_by_path[k][1] = paths[Len(paths) + 1 - k]
    /\ results[1] # [results[Len(results)] EXCEPT !.path = paths[1]]
    /\ \A i \in DOMAIN paths : results[i].path = paths[i]

BlurDispositions == {"blurred", "partialBlurred", "slightlyBlurred"}

\* C2: every successfully-analyzed image has at most one plan entry, with a
\* reason out of duplicate, blurred, partialBlurred, slightlyBlurred (no entry
\* is keep); an errored image has no plan entry; no other plan entry exists.
C2_Partition ==
    /\ \A i \in DOMAIN results :
          IF Success(results[i])
          THEN /\ Cardinality(EntriesOf(results[i].path)) <= 1
               /\ \A k \in EntriesOf(results[i].path) :
                      plans[k].reason \in BlurDispositions \cup {"duplicate"}
          ELSE EntriesOf(results[i].path) = {}
    /\ \A k \in DOMAIN plans : \E i \in DOMAIN results : plans[k].src = results[i].path

\* classification is over: a kept image, a planned one that is both duplicate
\* and blurred, and an errored one whose message is empty
C2_Witness ==
    /\ pc = "exec"
    /\ \E i, j, e \in DOMAIN results :
          /\ Success(results[i]) /\ EntriesOf(results[i].path) = {}
          /\ Success(results[j]) /\ EntriesOf(results[j].path) # {}
          /\ results[j].path \in duplicate_map
          /\ BlurReason(results[j], config) # "None"
          /\ results[e].error = ""

GroupMembers(g) == Range(groups[g].members)

NonCanonical(g) == {groups[g].members[k] : k \in 2 .. Len(groups[g].members)}

\* C3: the canonical member of a group is its first member and is never in
\* the duplicate set, and the duplicate set is exactly the set of the
\* non-canonical members of the groups.
C3_CanonicalImmunity ==
    /\ \A g \in DOMAIN groups :
          /\ groups[g].members[1] = groups[g].canonical_index
          /\ results[groups[g].canonical_index].path = groups[g].canonical_path
          /\ groups[g].canonical_path \notin duplicate_map
    /\ duplicate_map = {results[m].path : m \in UNION {NonCanonical(g) : g \in DOMAIN groups}}

\* a member of the first group is closer to the representative of a group
\* created after its admission than to its own
C3_Witness ==
    /\ pc = "plan"
    /\ \E g, g2 \in DOMAIN groups : \E m \in NonCanonical(g) :
          /\ groups[g2].canonical_index > m
          /\ Hamming(groups[g2].rep_hash, results[m].phash)
                < Hamming(groups[g].rep_hash, results[m].phash)

Grouped == {i \in 1 .. (idx - 1) : results[i].phash # NoneVal}

EarlierGroups(i) == {g \in DOMAIN groups : groups[g].canonical_index < i}

\* C4: a record that has a hash joins an existing group if and only if some
\* group created before it has its representative hash within
\* duplicate_threshold; otherwise it founds a group of which it is the
\* canonical member.
C4_ThresholdAdmission ==
    \A i \in Grouped :
        LET near == \E g \in EarlierGroups(i) :
                        Hamming(results[groups[g].canonical_index].phash, results[i].phash)
                            <= config.duplicate_threshold
        IN  /\ near <=> \E g \in EarlierGroups(i) : i \in NonCanonical(g)
            /\ ~near <=> \E g \in DOMAIN groups :
                            groups[g].canonical_index = i /\ groups[g].members[1] = i

\* with a threshold T >= 1: an image at distance exactly T from the first one
\* is in its group, an image at distance T+1 is not
C4_Witness ==
    /\ pc = "plan"
    /\ config.duplicate_threshold >= 1
    /\ Len(groups) = 2
    /\ groups[1].members = <<1, 2>>
    /\ groups[2].members = <<3>>
    /\ Hamming(results[1].phash, results[2].phash) = config.duplicate_threshold
    /\ Hamming(results[1].phash, results[3].phash) = config.duplicate_threshold + 1

IsPrefix(s, t) == Len(s) <= Len(t) /\ SubSeq(t, 1, Len(s)) = s

\* C5: the representative hash of a group is the hash of its first member; a
\* non-canonical member is in the group that was nearest by representative
\* hash among the groups that existed at its admission, the earliest-created
\* one among equally near groups; a record is in one group only; and a group
\* is only ever appended to.
C5_NearestEarliest ==
    /\ [](/\ \A g \in DOMAIN groups :
               /\ groups[g].rep_hash = results[groups[g].canonical_index].phash
               /\ \A m \in NonCanonical(g) : \A g2 \in EarlierGroups(m) :
                      LET d == Hamming(groups[g].rep_hash, results[m].phash)
                          d2 == Hamming(groups[g2].rep_hash, results[m].phash)
                      IN  d2 >= d /\ (d2 = d => g2 >= g)
          /\ \A g, g2 \in DOMAIN groups :
               g # g2 => GroupMembers(g) \cap GroupMembers(g2) = {})
    /\ [][\A g \in DOMAIN groups :
               /\ g \in DOMAIN groups'
               /\ groups'[g].rep_hash = groups[g].rep_hash
               /\ groups'[g].canonical_index = groups[g].canonical_index
               /\ IsPrefix(groups[g].members, groups'[g].members)]_vars

\* two groups are equally near the third image, which joined the first
C5_Witness ==
    /\ pc = "plan"
    /\ Len(groups) = 2
    /\ groups[1].members = <<1, 3>>
    /\ groups[2].members = <<2>>
    /\ Hamming(groups[1].rep_hash, results[3].phash)
          = Hamming(groups[2].rep_hash, results[3].phash)

\* records planned so far that are successfully analyzed and not duplicates:
\* their plan reason is their blur tier
BlurOnly == {i \in Planned : Success(results[i]) /\ results[i].path \notin duplicate_map}

WholeImageRule(r) ==
    config.blur_on = "image" \/ (config.blur_on = "faces" /\ FaceVars(r) = <<>>)

\* C6: in image mode, and in faces mode when no face was found, an image is
\* planned as blurred if and only if its blur variance is strictly below the
\* blur threshold, and is otherwise not planned for blur at all.
C6_WholeImage ==
    \A i \in BlurOnly :
        WholeImageRule(results[i]) =>
            PlanReason(results[i].path) =
                (IF results[i].blur_variance < config.blur_threshold THEN "blurred" ELSE "None")

\* faces mode, no face, variance equal to the threshold: kept
C6_Witness ==
    /\ pc = "done"
    /\ config.blur_on = "faces"
    /\ \E i \in BlurOnly :
          /\ results[i].faces_variances = <<>>
          /\ results[i].blur_variance = config.blur_threshold
          /\ PlanReason(results[i].path) = "None"

CountBelow(vs, t) == Cardinality({k \in DOMAIN vs : vs[k] < t})

\* C7: in faces mode with at least one face: blurred when every face is below
\* the threshold; otherwise partialBlurred when the share of blurred faces, in
\* percent, reaches partial_blur_min_percent; otherwise slightlyBlurred when
\* some face is blurred; the whole-image variance plays no part.
C7_FaceTiers ==
    \A i \in BlurOnly :
        LET fv == FaceVars(results[i])
            faceCount == Len(fv)
            blurredFaces == CountBelow(fv, config.blur_threshold)
            reason == PlanReason(results[i].path)
        IN  (config.blur_on = "faces" /\ faceCount > 0) =>
                /\ (blurredFaces = faceCount) => reason = "blurred"
                /\ (blurredFaces # faceCount
                      /\ blurredFaces * 100 >= config.partial_blur_min_percent * faceCount)
                       => reason = "partialBlurred"
                /\ (blurredFaces # faceCount
                      /\ blurredFaces * 100 < config.partial_blur_min_percent * faceCount
                      /\ blurredFaces > 0)
                       => reason = "slightlyBlurred"

\* variances [10, 10, 10, 200], threshold 50, 50 percent: partialBlurred
C7_Witness ==
    /\ pc = "done"
    /\ config.blur_on = "faces"
    /\ config.blur_threshold = 50
    /\ config.partial_blur_min_percent = 50
    /\ \E i \in BlurOnly :
          /\ results[i].faces_variances = <<10, 10, 10, 200>>
          /\ PlanReason(results[i].path) = "partialBlurred"

\* C8: in faces mode an image with at least one face and no face below the
\* blur threshold is not planned for blur, whatever partial_blur_min_percent.
C8_NoBlurredFaceIsSharp ==
    \A i \in BlurOnly :
        LET fv == FaceVars(results[i])
        IN  (config.blur_on = "faces" /\ Len(fv) > 0 /\ CountBelow(fv, config.blur_threshold) = 0)
                => PlanReason(results[i].path) = "None"

\* C9: the plan reason of a successfully-analyzed image follows the truth
\* table of duplicate flag, blur tier and prefer_duplicate_over_blur.
C9_TruthTable ==
    \A i \in Planned :
        LET r == results[i]
            isDuplicate == r.path \in duplicate_map
            tier == BlurReason(r, config)
            reason == PlanReason(r.path)
        IN  Success(r) =>
                /\ (isDuplicate /\ tier # "None" /\ config.prefer_duplicate_over_blur)
                       => reason = "duplicate"
                /\ (isDuplicate /\ tier # "None" /\ ~config.prefer_duplicate_over_blur)
                       => reason = tier
                /\ (isDuplicate /\ tier = "None") => reason = "duplicate"
                /\ (~isDuplicate /\ tier # "None") => reason = tier
                /\ (~isDuplicate /\ tier = "None") => reason = "None"

\* a blurred duplicate planned as duplicate because the flag is set
C9_Witness ==
    /\ pc = "exec"
    /\ config.prefer_duplicate_over_blur
    /\ \E i \in Planned :
          /\ results[i].path \in duplicate_map
          /\ BlurReason(results[i], config) = "blurred"
          /\ PlanReason(results[i].path) = "duplicate"

NumberedPath(dest, n) ==
    [dir |-> dest.dir, name |-> Numbered(Stem(dest.name), n, Suffix(dest.name))]

\* C10: a successful execution of a plan entry adds exactly one file, holding
\* the source's content, and leaves every file already in a destination
\* directory as it was; the file is the planned destination when that does not
\* exist, and otherwise stem_N.ext for the smallest N >= 1 that does not exist.
C10_CollisionSafe ==
    [][(pc = "exec" /\ fs' # fs) =>
          LET plan == plans[pk]
              added == DOMAIN fs' \ DOMAIN fs
          IN  /\ \A q \in DOMAIN fs : q \in DOMAIN fs' /\ fs'[q] = fs[q]
              /\ Cardinality(added) = 1
              /\ \A new \in added :
                    /\ fs'[new] = Content(plan.src)
                    /\ IF plan.dest \notin DOMAIN fs
                       THEN new = plan.dest
                       ELSE \E n \in 1 .. Len(IntStr) :
                               /\ new = NumberedPath(plan.dest, n)
                               /\ \A m \in 1 .. (n - 1) : NumberedPath(plan.dest, m) \in DOMAIN fs]_vars

\* two inputs named img.jpg, both blurred, moved into the empty directory:
\* they are img.jpg and img_1.jpg there
C10_Witness ==
    /\ pc = "done"
    /\ Len(plans) = 2
    /\ plans[1].dest = Blurred(ImgJpg)
    /\ plans[2].dest = Blurred(ImgJpg)
    /\ DOMAIN fs = {Blurred(ImgJpg), Blurred(Img1Jpg)}
    /\ fs[Blurred(ImgJpg)] = Content(plans[1].src)
    /\ fs[Blurred(Img1Jpg)] = Content(plans[2].src)

\* C11: a dry run creates no directory and moves or copies no file, and the
\* plans it reports are those the same inputs give with dry_run = false.
C11_DryRunNoOp ==
    /\ [](config.dry_run /\ Merged /\ pc \in {"exec", "done"} =>
             plans = PlanFrom(ExpectedResults,
                              group_duplicates(ExpectedResults, config.duplicate_threshold).duplicate_map,
                              [config EXCEPT !.dry_run = FALSE], 1))
    /\ [][config.dry_run => (dirs' = dirs /\ fs' = fs /\ srcs' = srcs)]_vars

\* a dry run that reported two plans has finished; nothing exists in the
\* destination directories and every input is in place
C11_Witness ==
    /\ pc = "done"
    /\ config.dry_run
    /\ Len(plans) >= 2
    /\ pk = Len(plans) + 1
    /\ dirs = {}
    /\ DOMAIN fs = {}
    /\ srcs = DOMAIN files

\* the image at position i of the discovery order could not be analyzed
Failed(i) == files[paths[i]].kind # "ok"

\* the outcomes of the images that could be analyzed, in discovery order
OkOnly == SelectSeq(ExpectedResults, Success)

MemberPaths(rs, g) == [k \in DOMAIN g.members |-> rs[g.members[k]].path]

\* C12: an image whose extraction fails or raises gets an error record (no
\* hash, no blur variance, an error) and no other image does; the record is in
\* no group, is no duplicate and has no plan entry; the groups, the duplicate
\* set and the plans are those of the input without the failing images; and
\* the run ends with status 0.
C12_FailureIsLocal ==
    LET sub == group_duplicates(OkOnly, config.duplicate_threshold)
    IN  /\ \A i \in DOMAIN results :
              IF Failed(i)
              THEN /\ results[i].path = paths[i]
                   /\ results[i].phash = NoneVal
                   /\ results[i].blur_variance = NoneVal
                   /\ results[i].error # "None"
                   /\ \A g \in DOMAIN groups : i \notin GroupMembers(g)
                   /\ results[i].path \notin duplicate_map
                   /\ EntriesOf(results[i].path) = {}
              ELSE Success(results[i]) /\ results[i].phash # NoneVal
        /\ (Merged /\ pc \notin {"merged", "group"}) =>
              /\ duplicate_map = sub.duplicate_map
              /\ Len(groups) = Len(sub.groups)
              /\ \A g \in DOMAIN groups :
                    /\ groups[g].rep_hash = sub.groups[g].rep_hash
                    /\ groups[g].canonical_path = sub.groups[g].canonical_path
                    /\ MemberPaths(results, groups[g]) = MemberPaths(OkOnly, sub.groups[g])
        /\ (Merged /\ pc \in {"exec", "done"}) =>
              plans = PlanFrom(OkOnly, sub.duplicate_map, config, 1)
        /\ (Merged /\ pc = "done") => status = 0

\* the run has ended; the second of three images raised in its worker, and
\* the third was grouped with the first and planned as its duplicate
C12_Witness ==
    /\ pc = "done"
    /\ status = 0
    /\ Len(results) = 3
    /\ files[paths[2]].kind = "fault"
    /\ results[2].error = "worker fault"
    /\ Len(groups) = 1
    /\ groups[1].members = <<1, 3>>
    /\ PlanReason(paths[3]) = "duplicate"

\* the contents moved or copied into the destination directories by this run
Delivered == {fs[q] : q \in {q \in DOMAIN fs : fs[q] # 0}}

\* C13: in a run that is not a dry run every step of the execution loop
\* attempts the next plan entry, in plan order, and only that one: either its
\* source arrives in a destination directory and the error total is unchanged,
\* or nothing is written and the error total grows by one; the loop ends only
\* after the last entry.
C13_FailureDoesNotAbort ==
    /\ [][(pc = "exec" /\ ~config.dry_run /\ pk <= Len(plans)) =>
             /\ pk' = pk + 1
             /\ plans' = plans
             /\ pc' = "exec"
             /\ \/ /\ error_count' = error_count
                   /\ \E q \in DOMAIN fs' \ DOMAIN fs : fs'[q] = Content(plans[pk].src)
                \/ /\ error_count' = error_count + 1
                   /\ fs' = fs
                   /\ srcs' = srcs]_vars
    /\ []((pc = "done" /\ Merged /\ ~config.dry_run) => pk = Len(plans) + 1)

\* the first of three moves failed, the two after it were carried out
C13_Witness ==
    /\ pc = "done"
    /\ ~config.dry_run
    /\ ~config.keep_originals
    /\ Len(plans) = 3
    /\ error_count = 1
    /\ srcs = {plans[1].src}
    /\ Delivered = {Content(plans[2].src), Content(plans[3].src)}

Disposition(i) ==
    Combine(results[i].path \in duplicate_map, BlurReason(results[i], config),
            config.prefer_duplicate_over_blur)

\* the records planned so far that are successfully analyzed and not kept
Routed == {i \in Planned : Success(results[i]) /\ Disposition(i) # "None"}

DiscoveryIndex(path) == CHOOSE i \in DOMAIN paths : paths[i] = path

\* C14: the plans are, in discovery order, one entry for each successfully
\* analyzed record whose disposition is not keep and none for any other
\* record; an entry carries the record's disposition, keeps the file name, and
\* its directory is the one folder of that disposition.
C14_PlanOrder ==
    /\ Len(plans) = Cardinality(Routed)
    /\ \A i \in Routed : \E k \in DOMAIN plans :
          plans[k].src = results[i].path /\ plans[k].reason = Disposition(i)
    /\ \A k \in DOMAIN plans : \E i \in Routed : plans[k].src = results[i].path
    /\ \A k, l \in DOMAIN plans :
          k < l => DiscoveryIndex(plans[k].src) < DiscoveryIndex(plans[l].src)
    /\ \A k \in DOMAIN plans :
          /\ plans[k].dest.name = plans[k].src.name
          /\ plans[k].reason = "duplicate" => plans[k].dest.dir = "duplicate"
          /\ plans[k].reason = "blurred" => plans[k].dest.dir = "blurred"
          /\ plans[k].reason = "partialBlurred" => plans[k].dest.dir = "partialBlurred"
          /\ plans[k].reason = "slightlyBlurred" => plans[k].dest.dir = "slightlyBlurred"

\* the first and the third of three images are planned, for different
\* reasons, and the second is kept
C14_Witness ==
    /\ pc = "exec"
    /\ Len(results) = 3
    /\ Len(plans) = 2
    /\ plans[1].src = paths[1]
    /\ plans[2].src = paths[3]
    /\ plans[1].reason # plans[2].reason
    /\ Success(results[2])

\* the move or copy attempts of the finished run that failed
FailedMoves == Len(plans) - Cardinality(Delivered)

Errored == {i \in DOMAIN results : ~Success(results[i])}

WithReason(reason) == {k \in DOMAIN plans : plans[k].reason = reason}

\* the category counts add up, with the failed moves, to the number of plans
C15_CategoriesConserved ==
    (pc = "done" /\ Merged /\ ~config.dry_run) =>
        blurred_count + partial_blurred_count + slightly_blurred_count + duplicates_count
            + FailedMoves = Len(plans)

\* C15: at the end of a run that is not a dry run the four category counts
\* and the failed moves add up to the number of plans, and the error total is
\* the number of errored analysis records plus the number of failed moves; at
\* the end of a dry run each category count is the number of plans with that
\* reason.
C15_CountersConserved ==
    /\ C15_CategoriesConserved
    /\ (pc = "done" /\ Merged /\ ~config.dry_run) =>
          error_count = Cardinality(Errored) + FailedMoves
    /\ (pc = "done" /\ Merged /\ config.dry_run) =>
          /\ blurred_count = Cardinality(WithReason("blurred"))
          /\ partial_blurred_count = Cardinality(WithReason("partialBlurred"))
          /\ slightly_blurred_count = Cardinality(WithReason("slightlyBlurred"))
          /\ duplicates_count = Cardinality(WithReason("duplicate"))

====
